---- MODULE Spec2Model ----
(***************************************************************************)
(* A model of the bingo PWA of src/sw.js: the offline cache worker         *)
(* (lines 1-316) and the client script (lines 317-1109).                   *)
(*                                                                         *)
(* The two execution contexts share no memory, so they are modelled by two *)
(* groups of variables and one specification each: SpecSW for the worker,  *)
(* Spec for the client.                                                    *)
(***************************************************************************)
EXTENDS Integers, Sequences, FiniteSets, TLC

VARIABLES
    \* ---- worker context (src/sw.js 1-316)
    swState,        \* lifecycle: parsed, installing, installed, activating, activated
    cacheStorage,   \* CacheStorage: sequence (creation order) of [name, entries]
    skipWaitingFlag,\* self.skipWaiting() has been called
    oldWorkerActive,\* a previous worker still controls open pages
    actPending,     \* activate: caches.delete calls issued and not yet completed
    actDeleted,     \* activate: cache names whose deletion it has completed
    claimed,        \* self.clients.claim() has been called
    req,            \* the request of the fetch event being handled
    pc,             \* position of the fetch handler (its awaits)
    netResp,        \* the handler's local networkResponse
    netFailed,      \* the handler's fetch(request) threw
    result,         \* what the handler's promise resolved with
    bgUpdates,      \* updateCache calls running in the background
    \* ---- client context (src/sw.js 317-1109)
    appPhase,       \* position of initApp: start, register, loadBoards, saveBoards, ready
    allBoards,      \* the board objects, allBoards[id]
    selectedBoards, \* ids of the displayed boards, in order
    pendingSelected,\* the temporary selection set
    visible,        \* the sections whose display is not 'none'
    cards,          \* the board cards of boardsContainer, in order
    inputValue,     \* searchInput.value
    addBtnDisabled, \* addBtn.disabled
    removeTimers,   \* pending setTimeout(removeBoardById, 280) callbacks, in order
    hlTimers,       \* pending setTimeout(remove winning-cell, 2000) callbacks, in order
    saveTimers,     \* pending setTimeout(later, 500) callbacks of debounced saves
    asyncQueue,     \* async functions waiting for openIndexedDB(), in order
    dbBoards,       \* IndexedDB object store 'boards'
    dbGameState,    \* IndexedDB object store 'gameState'
    rng,            \* outcomes of Math.random() the generator is about to draw
    uncaught,       \* an exception or rejection was left unhandled by the script
    trail           \* the cell clicks made so far (kept by the board specification)

swVars == <<swState, cacheStorage, skipWaitingFlag, oldWorkerActive, actPending,
            actDeleted, claimed, req, pc, netResp, netFailed, result, bgUpdates>>

memVars == <<allBoards, selectedBoards, pendingSelected>>

domVars == <<visible, cards, inputValue, addBtnDisabled>>

timerVars == <<removeTimers, hlTimers, saveTimers>>

dbVars == <<dbBoards, dbGameState>>

clientVars == <<appPhase, memVars, domVars, timerVars, asyncQueue, dbVars, rng,
               uncaught, trail>>

vars == <<swVars, clientVars>>

(***************************************************************************)
(* JavaScript values                                                       *)
(***************************************************************************)
Undefined == [type |-> "undefined"]

NoRequest == [type |-> "none"]

Response(status, body) ==
    [type |-> "response", status |-> status, body |-> body, offlineHeader |-> FALSE]

\* a response taken for ok whatever its status
OkAlways(resp) == TRUE

\* a response taken for ok unless the server failed
OkBelow500(resp) == resp.status < 500

\* Response.ok: status in the range 200-299
Ok(resp) == resp.status >= 200 /\ resp.status <= 299

IsResponse(v) == v.type = "response"

(***************************************************************************)
(* Worker constants                                                        *)
(***************************************************************************)
CACHE_NAME == "bingo-pwa-v1.0.0"

\* Names of caches a previous version (or another script of the origin) left.
OldCacheNames == {"bingo-pwa-v0.9.0", "legacy-cache"}

\* The pre-cache list; the icon paths behave like "/style.css" and are left out.
STATIC_ASSETS == {"/", "/index.html", "/style.css"}

GetRequest(path, mode) == [path |-> path, mode |-> mode, method |-> "GET"]

PostRequest(path) == [path |-> path, mode |-> "cors", method |-> "POST"]

\* The same-origin requests the pages issue.
Requests ==
    { GetRequest("/", "navigate"), GetRequest("/play", "navigate"),
      GetRequest("/style.css", "no-cors"),
      GetRequest("/api/boards", "cors"), PostRequest("/api/boards"),
      GetRequest("/img/logo.png", "no-cors"),
      GetRequest("/analytics.js", "no-cors"), PostRequest("/submit") }

\* url.pathname.startsWith('/api/')
StartsWithApi(path) == path \in {"/api/boards"}

\* url.pathname.includes('analytics') || url.pathname.includes('tracking')
IncludesAnalyticsOrTracking(path) == path \in {"/analytics.js"}

\* What fetch(request) can do: resolve ok, resolve with an error status, throw.
NetOutcomes == {"ok", "notok", "fail"}

NetResponse(outcome) ==
    IF outcome = "ok" THEN Response(200, "net") ELSE Response(404, "net-error")

(***************************************************************************)
(* Cache Storage API                                                       *)
(***************************************************************************)
EmptyEntries == [p \in {} |-> Undefined]

CacheNames(cs) == {cs[i].name : i \in 1..Len(cs)}

HasCache(cs, name) == name \in CacheNames(cs)

IndexOfCache(cs, name) == CHOOSE i \in 1..Len(cs) : cs[i].name = name

\* caches.open(name): creates the cache when it does not exist
CachesOpen(cs, name) ==
    IF HasCache(cs, name) THEN cs
    ELSE Append(cs, [name |-> name, entries |-> EmptyEntries])

\* caches.delete(name)
CachesDelete(cs, name) == SelectSeq(cs, LAMBDA c : c.name # name)

\* cache.put(request, response) on the cache called name; a request whose
\* method is not GET is refused (the promise rejects, nothing is stored)
CachePut(cs, name, r, resp) ==
    IF r.method # "GET" \/ ~HasCache(cs, name) THEN cs
    ELSE [cs EXCEPT ![IndexOfCache(cs, name)].entries = (r.path :> resp) @@ @]

\* caches.match(request): the first cache, in creation order, holding an entry
CachesMatch(cs, r) ==
    LET hits == {i \in 1..Len(cs) : r.path \in DOMAIN cs[i].entries}
        first == CHOOSE i \in hits : \A j \in hits : i <= j
    IN  IF r.method # "GET" \/ hits = {} THEN Undefined
        ELSE cs[first].entries[r.path]

Cached(cs, name, path) ==
    HasCache(cs, name) /\ path \in DOMAIN cs[IndexOfCache(cs, name)].entries

(***************************************************************************)
(* Install (src/sw.js 39-56)                                               *)
(***************************************************************************)
\* caches.open(CACHE_NAME)
InstallOpen ==
    /\ swState = "parsed"
    /\ swState' = "installing"
    /\ cacheStorage' = CachesOpen(cacheStorage, CACHE_NAME)
    /\ UNCHANGED <<skipWaitingFlag, oldWorkerActive, actPending, actDeleted,
                   claimed, req, pc, netResp, netFailed, result, bgUpdates>>
    /\ UNCHANGED clientVars

\* cache.addAll(STATIC_ASSETS) stores every asset or, when one request fails,
\* none; the entries of the pre-cache
AddAll(cs, name) ==
    IF ~HasCache(cs, name) THEN cs
    ELSE [cs EXCEPT ![IndexOfCache(cs, name)].entries =
              [p \in STATIC_ASSETS |-> Response(200, "pre")] @@ @]

\* cache.addAll resolves, then skipWaiting(); or it rejects and the catch
\* logs: the promise given to waitUntil resolves either way
InstallAddAll ==
    /\ swState = "installing"
    /\ \E ok \in BOOLEAN :
         /\ cacheStorage' = IF ok THEN AddAll(cacheStorage, CACHE_NAME)
                            ELSE cacheStorage
         /\ skipWaitingFlag' = (skipWaitingFlag \/ ok)
    /\ swState' = "installed"
    /\ UNCHANGED <<oldWorkerActive, actPending, actDeleted, claimed, req, pc,
                   netResp, netFailed, result, bgUpdates>>
    /\ UNCHANGED clientVars

\* The pages the previous worker controls are closed.
OldClientsClose ==
    /\ oldWorkerActive
    /\ oldWorkerActive' = FALSE
    /\ UNCHANGED <<swState, cacheStorage, skipWaitingFlag, actPending,
                   actDeleted, claimed, req, pc, netResp, netFailed, result,
                   bgUpdates>>
    /\ UNCHANGED clientVars

(***************************************************************************)
(* Activate (src/sw.js 60-78)                                              *)
(***************************************************************************)
\* activate without the test of the name: every cache is deleted
IsOldCacheNoTest(key) == TRUE

\* key !== CACHE_NAME
IsOldCache(key) == key # CACHE_NAME

\* caches.keys() resolves; keyList.map issues a delete for every old cache
ActivateKeys ==
    /\ swState = "installed"
    /\ skipWaitingFlag \/ ~oldWorkerActive
    /\ swState' = "activating"
    /\ actPending' = {k \in CacheNames(cacheStorage) : IsOldCache(k)}
    /\ actDeleted' = {}
    /\ UNCHANGED <<cacheStorage, skipWaitingFlag, oldWorkerActive, claimed,
                   req, pc, netResp, netFailed, result, bgUpdates>>
    /\ UNCHANGED clientVars

\* one caches.delete(key) of the Promise.all completes
ActivateDelete(key) ==
    /\ swState = "activating"
    /\ key \in actPending
    /\ cacheStorage' = CachesDelete(cacheStorage, key)
    /\ actPending' = actPending \ {key}
    /\ actDeleted' = actDeleted \cup {key}
    /\ UNCHANGED <<swState, skipWaitingFlag, oldWorkerActive, claimed, req, pc,
                   netResp, netFailed, result, bgUpdates>>
    /\ UNCHANGED clientVars

\* the claim made without waiting for the deletions
DeletionsNotAwaited(pending) == TRUE

\* Promise.all(keyList.map(...)) has resolved: every delete has completed
DeletionsSettled(pending) == pending = {}

\* Promise.all resolved: self.clients.claim()
ActivateClaim ==
    /\ swState = "activating"
    /\ DeletionsSettled(actPending)
    /\ swState' = "activated"
    /\ claimed' = TRUE
    /\ oldWorkerActive' = FALSE
    /\ UNCHANGED <<cacheStorage, skipWaitingFlag, actPending, actDeleted, req,
                   pc, netResp, netFailed, result, bgUpdates>>
    /\ UNCHANGED clientVars

(***************************************************************************)
(* Fetch (src/sw.js 82-249)                                                *)
(***************************************************************************)
IndexRequest == GetRequest("/index.html", "navigate")

\* the routing of the fetch listener to the handler's first await
Route(r) ==
    IF r.mode = "navigate" THEN "nav_fetch"
    ELSE IF r.path \in STATIC_ASSETS THEN "static_match"
    ELSE IF StartsWithApi(r.path) THEN "api_fetch"
    ELSE "def_match"

lifecycleVars == <<swState, skipWaitingFlag, oldWorkerActive, actPending,
                   actDeleted, claimed>>

\* A fetch event of a controlled page: event.respondWith(handler(request)).
FetchEvent(r) ==
    /\ swState = "activated"
    /\ pc \in {"idle", "done"}
    /\ req' = r
    /\ pc' = Route(r)
    /\ netResp' = Undefined
    /\ netFailed' = FALSE
    /\ result' = Undefined
    /\ UNCHANGED <<lifecycleVars, cacheStorage, bgUpdates>>
    /\ UNCHANGED clientVars

\* The handler's promise resolves with v.
Resolve(v) == pc' = "done" /\ result' = v

\* handleNavigation: await fetch(request), ok tested, or the catch entered
HandleNavigationFetch ==
    /\ pc = "nav_fetch"
    /\ \E o \in NetOutcomes :
         IF o = "fail"
         THEN /\ netFailed' = TRUE
              /\ pc' = "nav_match"
              /\ UNCHANGED <<netResp, result>>
         ELSE /\ netResp' = NetResponse(o)
              /\ netFailed' = FALSE
              /\ IF Ok(NetResponse(o))
                 THEN pc' = "nav_open" /\ UNCHANGED result
                 ELSE Resolve(NetResponse(o))
    /\ UNCHANGED <<lifecycleVars, cacheStorage, req, bgUpdates>>
    /\ UNCHANGED clientVars

\* await caches.open(CACHE_NAME); cache.put(request, clone); return
HandleNavigationStore ==
    /\ pc = "nav_open"
    /\ cacheStorage' =
         CachePut(CachesOpen(cacheStorage, CACHE_NAME), CACHE_NAME, req, netResp)
    /\ Resolve(netResp)
    /\ UNCHANGED <<lifecycleVars, req, netResp, netFailed, bgUpdates>>
    /\ UNCHANGED clientVars

\* catch: await caches.match(request); if (cachedResponse) return it
HandleNavigationMatch ==
    /\ pc = "nav_match"
    /\ LET cachedResponse == CachesMatch(cacheStorage, req)
       IN  IF cachedResponse # Undefined
           THEN Resolve(cachedResponse)
           ELSE pc' = "nav_fallback" /\ UNCHANGED result
    /\ UNCHANGED <<lifecycleVars, cacheStorage, req, netResp, netFailed, bgUpdates>>
    /\ UNCHANGED clientVars

\* the fallback looked up under a path the pre-cache does not hold
NavigationFallbackOther(cs) == CachesMatch(cs, GetRequest("/offline.html", "navigate"))

\* the value handleNavigation returns last: caches.match('/index.html')
NavigationFallback(cs) == CachesMatch(cs, IndexRequest)

HandleNavigationFallback ==
    /\ pc = "nav_fallback"
    /\ Resolve(NavigationFallback(cacheStorage))
    /\ UNCHANGED <<lifecycleVars, cacheStorage, req, netResp, netFailed, bgUpdates>>
    /\ UNCHANGED clientVars

\* the cached version returned with no refresh started
UpdateCacheNotCalled(updates, r) == updates

\* updateCache(request), not awaited: it runs to its await of fetch(request)
CallUpdateCache(updates, r) == updates \cup {[request |-> r, stage |-> "fetch"]}

\* handleStaticAsset: await caches.match(request); a hit starts updateCache
HandleStaticAssetMatch ==
    /\ pc = "static_match"
    /\ LET cachedResponse == CachesMatch(cacheStorage, req)
       IN  IF cachedResponse # Undefined
           THEN /\ bgUpdates' = CallUpdateCache(bgUpdates, req)
                /\ Resolve(cachedResponse)
           ELSE pc' = "static_fetch" /\ UNCHANGED <<result, bgUpdates>>
    /\ UNCHANGED <<lifecycleVars, cacheStorage, req, netResp, netFailed>>
    /\ UNCHANGED clientVars

HandleStaticAssetFetch ==
    /\ pc = "static_fetch"
    /\ \E o \in NetOutcomes :
         IF o = "fail"
         THEN /\ netFailed' = TRUE
              /\ Resolve(Response(503, "Offline - Asset not available"))
              /\ UNCHANGED netResp
         ELSE /\ netResp' = NetResponse(o)
              /\ netFailed' = FALSE
              /\ IF Ok(NetResponse(o))
                 THEN pc' = "static_open" /\ UNCHANGED result
                 ELSE Resolve(NetResponse(o))
    /\ UNCHANGED <<lifecycleVars, cacheStorage, req, bgUpdates>>
    /\ UNCHANGED clientVars

HandleStaticAssetStore ==
    /\ pc = "static_open"
    /\ cacheStorage' =
         CachePut(CachesOpen(cacheStorage, CACHE_NAME), CACHE_NAME, req, netResp)
    /\ Resolve(netResp)
    /\ UNCHANGED <<lifecycleVars, req, netResp, netFailed, bgUpdates>>
    /\ UNCHANGED clientVars

\* handleAPIRequest
HandleAPIRequestFetch ==
    /\ pc = "api_fetch"
    /\ \E o \in NetOutcomes :
         IF o = "fail"
         THEN /\ netFailed' = TRUE
              /\ pc' = "api_match"
              /\ UNCHANGED <<netResp, result>>
         ELSE /\ netResp' = NetResponse(o)
              /\ netFailed' = FALSE
              /\ IF Ok(NetResponse(o))
                 THEN pc' = "api_open" /\ UNCHANGED result
                 ELSE Resolve(NetResponse(o))
    /\ UNCHANGED <<lifecycleVars, cacheStorage, req, bgUpdates>>
    /\ UNCHANGED clientVars

HandleAPIRequestStore ==
    /\ pc = "api_open"
    /\ cacheStorage' =
         CachePut(CachesOpen(cacheStorage, CACHE_NAME), CACHE_NAME, req, netResp)
    /\ Resolve(netResp)
    /\ UNCHANGED <<lifecycleVars, req, netResp, netFailed, bgUpdates>>
    /\ UNCHANGED clientVars

\* the cached response handed on as it is
WithoutOfflineHeader(cachedResponse) == cachedResponse

\* new Response(cachedResponse.body, {status, statusText, headers + X-Offline-Mode})
WithOfflineHeader(cachedResponse) == [cachedResponse EXCEPT !.offlineHeader = TRUE]

HandleAPIRequestMatch ==
    /\ pc = "api_match"
    /\ LET cachedResponse == CachesMatch(cacheStorage, req)
       IN  IF cachedResponse # Undefined
           THEN Resolve(WithOfflineHeader(cachedResponse))
           ELSE Resolve(Response(503, "{error: offline}"))
    /\ UNCHANGED <<lifecycleVars, cacheStorage, req, netResp, netFailed, bgUpdates>>
    /\ UNCHANGED clientVars

\* every response taken as cacheable
shouldCacheAlways(r) == TRUE

\* shouldCache(request)
shouldCache(r) ==
    IF r.method # "GET" THEN FALSE
    ELSE IF IncludesAnalyticsOrTracking(r.path) THEN FALSE
    ELSE TRUE

\* handleDefault
HandleDefaultMatch ==
    /\ pc = "def_match"
    /\ LET cachedResponse == CachesMatch(cacheStorage, req)
       IN  IF cachedResponse # Undefined
           THEN Resolve(cachedResponse)
           ELSE pc' = "def_fetch" /\ UNCHANGED result
    /\ UNCHANGED <<lifecycleVars, cacheStorage, req, netResp, netFailed, bgUpdates>>
    /\ UNCHANGED clientVars

HandleDefaultFetch ==
    /\ pc = "def_fetch"
    /\ \E o \in NetOutcomes :
         IF o = "fail"
         THEN /\ netFailed' = TRUE
              /\ Resolve(Response(503, "Offline"))
              /\ UNCHANGED netResp
         ELSE /\ netResp' = NetResponse(o)
              /\ netFailed' = FALSE
              /\ IF Ok(NetResponse(o)) /\ shouldCache(req)
                 THEN pc' = "def_open" /\ UNCHANGED result
                 ELSE Resolve(NetResponse(o))
    /\ UNCHANGED <<lifecycleVars, cacheStorage, req, bgUpdates>>
    /\ UNCHANGED clientVars

HandleDefaultStore ==
    /\ pc = "def_open"
    /\ cacheStorage' =
         CachePut(CachesOpen(cacheStorage, CACHE_NAME), CACHE_NAME, req, netResp)
    /\ Resolve(netResp)
    /\ UNCHANGED <<lifecycleVars, req, netResp, netFailed, bgUpdates>>
    /\ UNCHANGED clientVars

\* updateCache: await fetch(request); a throw or a status that is not ok ends it
UpdateCacheFetch(t) ==
    /\ t \in bgUpdates
    /\ t.stage = "fetch"
    /\ \E o \in NetOutcomes :
         bgUpdates' = IF o # "fail" /\ Ok(NetResponse(o))
                      THEN (bgUpdates \ {t}) \cup
                             {[request |-> t.request, stage |-> "open",
                               response |-> NetResponse(o)]}
                      ELSE bgUpdates \ {t}
    /\ UNCHANGED <<lifecycleVars, cacheStorage, req, pc, netResp, netFailed, result>>
    /\ UNCHANGED clientVars

\* updateCache: await caches.open(CACHE_NAME); cache.put(request, networkResponse)
UpdateCacheStore(t) ==
    /\ t \in bgUpdates
    /\ t.stage = "open"
    /\ cacheStorage' =
         CachePut(CachesOpen(cacheStorage, CACHE_NAME), CACHE_NAME, t.request,
                  t.response)
    /\ bgUpdates' = bgUpdates \ {t}
    /\ UNCHANGED <<lifecycleVars, req, pc, netResp, netFailed, result>>
    /\ UNCHANGED clientVars

(***************************************************************************)
(* Messages (src/sw.js 305-313)                                            *)
(***************************************************************************)
MessageSkipWaiting ==
    /\ swState # "parsed"
    /\ skipWaitingFlag' = TRUE
    /\ UNCHANGED <<swState, cacheStorage, oldWorkerActive, actPending, actDeleted,
                   claimed, req, pc, netResp, netFailed, result, bgUpdates>>
    /\ UNCHANGED clientVars

\* the cache names the CLEAR_CACHE message deletes
ClearedNames(cs) == {CACHE_NAME}

RECURSIVE DeleteAll(_, _)
DeleteAll(cs, names) ==
    IF names = {} THEN cs
    ELSE LET n == CHOOSE x \in names : TRUE
         IN  DeleteAll(CachesDelete(cs, n), names \ {n})

MessageClearCache ==
    /\ swState # "parsed"
    /\ cacheStorage' = DeleteAll(cacheStorage, ClearedNames(cacheStorage))
    /\ UNCHANGED <<lifecycleVars, req, pc, netResp, netFailed, result, bgUpdates>>
    /\ UNCHANGED clientVars

(***************************************************************************)
(* The worker's specification                                              *)
(***************************************************************************)
OldEntries == ("/index.html" :> Response(200, "old"))

InitialCache(name) ==
    [name |-> name,
     entries |-> IF name = CACHE_NAME THEN EmptyEntries ELSE OldEntries]

\* The caches that exist when the worker is first run, in creation order.
InitialCacheStorages ==
    LET names == OldCacheNames \cup {CACHE_NAME}
        lists == UNION {[1..n -> names] : n \in 0..Cardinality(names)}
    IN  { [i \in 1..Len(l) |-> InitialCache(l[i])] :
            l \in {m \in lists : \A i, j \in 1..Len(m) : i # j => m[i] # m[j]} }

InitWorker ==
    /\ swState = "parsed"
    /\ cacheStorage \in InitialCacheStorages
    /\ skipWaitingFlag = FALSE
    /\ oldWorkerActive \in BOOLEAN
    /\ actPending = {}
    /\ actDeleted = {}
    /\ claimed = FALSE
    /\ req = NoRequest
    /\ pc = "idle"
    /\ netResp = Undefined
    /\ netFailed = FALSE
    /\ result = Undefined
    /\ bgUpdates = {}

NextWorker ==
    \/ InstallOpen
    \/ InstallAddAll
    \/ OldClientsClose
    \/ ActivateKeys
    \/ \E key \in OldCacheNames \cup {CACHE_NAME} : ActivateDelete(key)
    \/ ActivateClaim
    \/ \E r \in Requests : FetchEvent(r)
    \/ HandleNavigationFetch
    \/ HandleNavigationStore
    \/ HandleNavigationMatch
    \/ HandleNavigationFallback
    \/ HandleStaticAssetMatch
    \/ HandleStaticAssetFetch
    \/ HandleStaticAssetStore
    \/ HandleAPIRequestFetch
    \/ HandleAPIRequestStore
    \/ HandleAPIRequestMatch
    \/ HandleDefaultMatch
    \/ HandleDefaultFetch
    \/ HandleDefaultStore
    \/ \E t \in bgUpdates : UpdateCacheFetch(t)
    \/ \E t \in bgUpdates : UpdateCacheStore(t)
    \/ MessageSkipWaiting
    \/ MessageClearCache

(***************************************************************************)
(* Client constants (src/sw.js 327-338)                                    *)
(***************************************************************************)
BINGO_RANGES ==
    << [letter |-> "B", start |-> 1,  end |-> 15],
       [letter |-> "I", start |-> 16, end |-> 30],
       [letter |-> "N", start |-> 31, end |-> 45],
       [letter |-> "G", start |-> 46, end |-> 60],
       [letter |-> "O", start |-> 61, end |-> 75] >>

\* The number of boards of the pool: stands for MAX_BOARDS (300).
MaxBoards == 2

FREE_SPACE_INDEX == 12

\* The "FREE" sentinel of board.numbers, a value no column range holds.
FREE == 0

BoardIds == 1..MaxBoards

Cells == 0..24

(***************************************************************************)
(* JavaScript Set (insertion ordered) as a sequence without repetition     *)
(***************************************************************************)
Range(seq) == {seq[k] : k \in 1..Len(seq)}

\* set.has(x)
Has(set, x) == x \in Range(set)

\* set.add(x)
SetAdd(set, x) == IF Has(set, x) THEN set ELSE Append(set, x)

\* set.delete(x)
SetDelete(set, x) == SelectSeq(set, LAMBDA y : y # x)

\* new Set(array)
RECURSIVE NewSet(_)
NewSet(array) ==
    IF array = <<>> THEN <<>>
    ELSE SetAdd(NewSet(SubSeq(array, 1, Len(array) - 1)), array[Len(array)])

\* Array.from(set): the elements in insertion order
ArrayFrom(set) == [k \in 1..Len(set) |-> set[k]]

(***************************************************************************)
(* Board generation (src/sw.js 484-511)                                    *)
(***************************************************************************)
\* while (colNums.length < 5): each element of stream is one outcome of
\* Math.floor(Math.random() * (range.end - range.start + 1))
RECURSIVE ColLoop(_, _, _)
ColLoop(range, colNums, stream) ==
    IF Len(colNums) >= 5 \/ stream = <<>> THEN colNums
    ELSE LET n == stream[1] + range.start
         IN  ColLoop(range,
                     IF n \notin Range(colNums) THEN Append(colNums, n) ELSE colNums,
                     Tail(stream))

\* the column left in the order of the draws
SortColumnSkipped(colNums) == colNums

\* colNums.sort((a, b) => a - b)
SortColumn(colNums) == SortSeq(colNums, LAMBDA a, b : a < b)

\* board.numbers[row * 5 + col] = colNums[row], for the five columns
PlaceColumns(streams) ==
    [i \in Cells |->
        SortColumn(ColLoop(BINGO_RANGES[(i % 5) + 1], <<>>, streams[i % 5]))[(i \div 5) + 1]]

\* board.numbers[FREE_SPACE_INDEX] = "FREE"
SetFree(numbers) == [numbers EXCEPT ![FREE_SPACE_INDEX] = FREE]

\* one board of generateMockBoards
GenerateBoard(id, streams) ==
    [id |-> id,
     numbers |-> SetFree(PlaceColumns(streams)),
     markedCells |-> NewSet(<<FREE_SPACE_INDEX>>),
     score |-> 0]

\* generateMockBoards: allBoards, index = id; r[id][col] is the stream of
\* random outcomes drawn for column col of board id
GenerateMockBoards(r) == [id \in BoardIds |-> GenerateBoard(id, r[id])]

(***************************************************************************)
(* Win checking (src/sw.js 917-957)                                        *)
(***************************************************************************)
patterns ==
    << <<0,1,2,3,4>>, <<5,6,7,8,9>>, <<10,11,12,13,14>>,
       <<15,16,17,18,19>>, <<20,21,22,23,24>>,
       <<0,5,10,15,20>>, <<1,6,11,16,21>>, <<2,7,12,17,22>>,
       <<3,8,13,18,23>>, <<4,9,14,19,24>>,
       <<0,6,12,18,24>>, <<4,8,12,16,20>> >>

\* pattern.every(i => marked.has(i))
PatternEvery(marked, k) == \A j \in 1..Len(patterns[k]) : Has(marked, patterns[k][j])

\* the loop without its break, as far as the pattern it flags last goes
RECURSIVE PatternLoopLast(_, _)
PatternLoopLast(marked, k) ==
    IF k > Len(patterns) THEN 0
    ELSE LET rest == PatternLoopLast(marked, k + 1)
         IN  IF rest # 0 THEN rest
             ELSE IF PatternEvery(marked, k) THEN k ELSE 0

\* for (let pattern of patterns) { if (...) { ...; break; } }: the index of
\* the pattern the loop stops at, 0 when it runs to the end
RECURSIVE PatternLoop(_, _)
PatternLoop(marked, k) ==
    IF k > Len(patterns) THEN 0
    ELSE IF PatternEvery(marked, k) THEN k
    ELSE PatternLoop(marked, k + 1)

\* checkBingo with score++ for every full pattern
CheckBingoEvery(board, card) ==
    LET full == {k \in 1..Len(patterns) : PatternEvery(board.markedCells, k)}
        k == PatternLoop(board.markedCells, 1)
    IN  IF k = 0
        THEN [board |-> board, card |-> card, pattern |-> 0]
        ELSE [board |-> [board EXCEPT !.score = @ + Cardinality(full)],
              card |-> [card EXCEPT !.winning = @ \cup Range(patterns[k])],
              pattern |-> k]

\* checkBingo(board, card): the board, the card and the highlight timer after it.
\* Every card holds a .bingo-grid-unified, so the early return is never taken.
CheckBingo(board, card) ==
    LET k == PatternLoop(board.markedCells, 1)
    IN  IF k = 0
        THEN [board |-> board, card |-> card, pattern |-> 0]
        ELSE [board |-> [board EXCEPT !.score = @ + 1],
              card |-> [card EXCEPT !.winning = @ \cup Range(patterns[k])],
              pattern |-> k]

(***************************************************************************)
(* IndexedDB as the client uses it (src/sw.js 514-571, 994-1041).          *)
(* openIndexedDB resolves with the native IDBDatabase, so store.get and    *)
(* store.getAll return an IDBRequest, and tx.complete is undefined.        *)
(***************************************************************************)
IDBRequest == [type |-> "IDBRequest"]

Null == [type |-> "null"]

Array(items) == [type |-> "array", items |-> items]

\* store.getAll()
StoreGetAll(store) == IDBRequest

\* store.get('current')
StoreGet(store) == IDBRequest

\* await v, for a v that is not a thenable: v itself
Await(v) == v

\* if (v): undefined and null are falsy, objects are truthy
Truthy(v) == v.type \notin {"undefined", "null"}

\* {...board, markedCells: Array.from(board.markedCells)}
BoardCopy(board) == [board EXCEPT !.markedCells = ArrayFrom(board.markedCells)]

\* {...board, markedCells: new Set(board.markedCells || [FREE_SPACE_INDEX])}
Rehydrate(stored) ==
    [stored EXCEPT !.markedCells =
        IF "markedCells" \in DOMAIN stored THEN NewSet(stored.markedCells)
        ELSE NewSet(<<FREE_SPACE_INDEX>>)]

\* the record saveGameState puts: {id: 'current', selectedBoards, boards}
Snapshot(selected, boards) ==
    [type |-> "record", id |-> "current", selectedBoards |-> selected,
     boards |-> [k \in DOMAIN boards |-> BoardCopy(boards[k])]]

\* boards.forEach(board => store.put(boardCopy)), the store keyed by id
PutBoards(store, boards) ==
    [id \in DOMAIN store \cup {boards[k].id : k \in DOMAIN boards} |->
        IF \E k \in DOMAIN boards : boards[k].id = id
        THEN BoardCopy(boards[CHOOSE k \in DOMAIN boards : boards[k].id = id])
        ELSE store[id]]

\* loadFromIndexedDB: what it returns. boards.map is called on what the await
\* of store.getAll() gave; on anything but an array it throws, the catch
\* returns null, as it does when the database cannot be opened.
LoadFromIndexedDB(openOk, store) ==
    LET boards == Await(StoreGetAll(store))
    IN  IF ~openOk THEN Null
        ELSE IF boards.type # "array" THEN Null
        ELSE Array([k \in DOMAIN boards.items |-> Rehydrate(boards.items[k])])

(***************************************************************************)
(* Sections and cards (src/sw.js 672-736)                                  *)
(***************************************************************************)
Card(id, isFirst) == [id |-> id, isFirst |-> isFirst, winning |-> {}]

\* renderAllBoards, for a selection that is not empty: one card per selected
\* id that allBoards holds, the card of index 0 being the first
RECURSIVE RenderCards(_, _, _)
RenderCards(selected, boards, k) ==
    IF k > Len(selected) THEN <<>>
    ELSE (IF selected[k] \in DOMAIN boards
          THEN <<Card(selected[k], k = 1)>> ELSE <<>>)
         \o RenderCards(selected, boards, k + 1)

(***************************************************************************)
(* Input (src/sw.js 599-617)                                               *)
(***************************************************************************)
NaN == [nan |-> TRUE, n |-> 0]

Digits(n) == [kind |-> "digits", n |-> n]

Text(t) == [kind |-> "text", text |-> t]

\* a numeral followed by characters that are no digits, as "1.5" or "2x"
DigitsThen(n, t) == [kind |-> "digitsThen", n |-> n, text |-> t]

\* What the user types: the numerals at and around the ends of the id range,
\* a negative numeral, a numeral with a tail, the empty text, or a text that
\* starts with no digit.
InputValues ==
    {Digits(n) : n \in {-1, 0, 1, MaxBoards, MaxBoards + 1}}
        \cup {DigitsThen(1, ".5"), Text(""), Text("abc")}

\* parseInt(value, 10): the leading numeral, NaN when there is none
ParseInt(value) ==
    IF value.kind \in {"digits", "digitsThen"} THEN [nan |-> FALSE, n |-> value.n]
    ELSE NaN

\* validateInput: the value of addBtn.disabled it leaves
ValidateInput(value, pending) ==
    LET val == ParseInt(value)
    IN  IF val.nan \/ val.n < 1 \/ val.n > MaxBoards THEN TRUE
        ELSE Has(pending, val.n)

\* Array.from(pendingSelected) without the sort
UnsortedArray(set) == ArrayFrom(set)

\* Array.from(pendingSelected).sort((a, b) => a - b)
SortedArray(set) == SortSeq(ArrayFrom(set), LAMBDA a, b : a < b)

(***************************************************************************)
(* Bounds of the client model                                              *)
(***************************************************************************)
\* async functions that may wait for openIndexedDB() at once
MaxQueue == 1

\* removal timers that may be pending at once
MaxTimers == 1

\* highlight timers that may be pending at once
MaxHighlights == 2

ready == appPhase = "ready"

(***************************************************************************)
(* initApp (src/sw.js 366-389) and its awaits                              *)
(***************************************************************************)
\* registerServiceWorker resolves or throws (then enableOfflineMode calls
\* loadGameState, not awaited); loadBoards starts and awaits loadFromIndexedDB
InitRegister ==
    /\ appPhase = "start"
    /\ \E registered \in BOOLEAN :
         asyncQueue' = (IF registered THEN <<>> ELSE <<"loadGameState">>)
                       \o <<"loadFromIndexedDB">>
    /\ appPhase' = "loadBoards"
    /\ UNCHANGED <<memVars, domVars, timerVars, dbVars, rng, uncaught>>
    /\ UNCHANGED <<swVars, trail>>

\* loadBoards after loadFromIndexedDB: the stored boards are taken and initApp
\* goes on, or generateMockBoards runs and saveToIndexedDB is awaited
\* openOk: openIndexedDB() resolved, the boards store can be read
LoadBoards(openOk) ==
    /\ asyncQueue # <<>> /\ Head(asyncQueue) = "loadFromIndexedDB"
    /\ LET storedBoards == LoadFromIndexedDB(openOk, dbBoards)
       IN  IF Truthy(storedBoards) /\ Len(storedBoards.items) > 0
           THEN /\ allBoards' = storedBoards.items
                /\ asyncQueue' = Tail(asyncQueue)
                /\ appPhase' = "ready"
                /\ visible' = {"noBoards"}
           ELSE /\ allBoards' = GenerateMockBoards(rng)
                /\ asyncQueue' = Append(Tail(asyncQueue), "saveToIndexedDB")
                /\ appPhase' = "saveBoards"
                /\ UNCHANGED visible
    /\ UNCHANGED <<selectedBoards, pendingSelected, cards, inputValue,
                   addBtnDisabled, timerVars, dbVars, rng, uncaught>>
    /\ UNCHANGED <<swVars, trail>>

ResolveLoadFromIndexedDB == \E openOk \in BOOLEAN : LoadBoards(openOk)

\* How a save function ends: its puts are issued ("saved"), or its catch
\* logs the error and the function returns ("logged").
SaveOutcomeNoCatch(opened) == IF opened THEN "saved" ELSE "thrown"

SaveOutcome(opened) == IF opened THEN "saved" ELSE "logged"

\* saveToIndexedDB(allBoards) ends; initApp then sets up the listeners and
\* calls showNoBoards. A rejection of saveToIndexedDB would be caught by
\* loadBoards, whose catch calls generateMockBoards() again.
SaveToIndexedDB(openOk) ==
    /\ asyncQueue # <<>> /\ Head(asyncQueue) = "saveToIndexedDB"
    /\ LET outcome == SaveOutcome(openOk)
       IN  /\ dbBoards' = IF outcome = "saved" THEN PutBoards(dbBoards, allBoards)
                          ELSE dbBoards
           /\ allBoards' = IF outcome = "thrown" THEN GenerateMockBoards(rng)
                           ELSE allBoards
    /\ asyncQueue' = Tail(asyncQueue)
    /\ appPhase' = "ready"
    /\ visible' = {"noBoards"}
    /\ UNCHANGED <<selectedBoards, pendingSelected, cards, inputValue,
                   addBtnDisabled, timerVars, dbGameState, rng, uncaught>>
    /\ UNCHANGED <<swVars, trail>>

ResolveSaveToIndexedDB == \E openOk \in BOOLEAN : SaveToIndexedDB(openOk)

(***************************************************************************)
(* Game state persistence (src/sw.js 994-1041)                             *)
(***************************************************************************)
\* saveGameState after openIndexedDB: the snapshot is taken and put, or the
\* catch logs. No caller awaits saveGameState(): a rejection of it would stay unhandled.
SaveGameState(openOk) ==
    /\ asyncQueue # <<>> /\ Head(asyncQueue) = "saveGameState"
    /\ LET outcome == SaveOutcome(openOk)
       IN  /\ dbGameState' = IF outcome = "saved"
                             THEN Snapshot(selectedBoards, allBoards)
                             ELSE dbGameState
           /\ uncaught' = (uncaught \/ outcome = "thrown")
    /\ asyncQueue' = Tail(asyncQueue)
    /\ UNCHANGED <<appPhase, memVars, domVars, timerVars, dbBoards, rng>>
    /\ UNCHANGED <<swVars, trail>>

ResolveSaveGameState == \E openOk \in BOOLEAN : SaveGameState(openOk)

\* loadGameState after openIndexedDB. state is what the await of
\* store.get('current') gave. selectedBoards is assigned first; state.boards.map
\* throws when state.boards is no array, and the catch logs.
ResolveLoadGameState ==
    /\ asyncQueue # <<>> /\ Head(asyncQueue) = "loadGameState"
    /\ asyncQueue' = Tail(asyncQueue)
    /\ \E openOk \in BOOLEAN :
         LET state == Await(StoreGet(dbGameState))
             selected == IF "selectedBoards" \in DOMAIN state
                         THEN state.selectedBoards ELSE <<>>
             boards == [k \in DOMAIN state.boards |-> Rehydrate(state.boards[k])]
         IN  IF ~openOk \/ ~Truthy(state)
             THEN UNCHANGED <<memVars, domVars, hlTimers>>
             ELSE IF "boards" \notin DOMAIN state
             THEN /\ selectedBoards' = selected
                  /\ UNCHANGED <<allBoards, pendingSelected, domVars, hlTimers>>
             ELSE /\ selectedBoards' = selected
                  /\ allBoards' = boards
                  /\ IF Len(selected) > 0
                     THEN /\ visible' = {"bingo"}
                          /\ cards' = RenderCards(selected, boards, 1)
                          /\ hlTimers' = <<>>
                     ELSE UNCHANGED <<visible, cards, hlTimers>>
                  /\ UNCHANGED <<pendingSelected, inputValue, addBtnDisabled>>
    /\ UNCHANGED <<appPhase, removeTimers, saveTimers, dbVars, rng, uncaught>>
    /\ UNCHANGED <<swVars, trail>>

(***************************************************************************)
(* Selection (src/sw.js 609-670)                                           *)
(***************************************************************************)
\* saveGameState(): the call runs to its await of openIndexedDB()
CallSaveGameState(queue) == Append(queue, "saveGameState")

\* The select button of the no-boards section or of the first card is clicked.
OpenSelectionMode ==
    /\ ready
    /\ \/ "noBoards" \in visible
       \/ "bingo" \in visible /\ \E c \in DOMAIN cards : cards[c].isFirst
    /\ pendingSelected' = NewSet(selectedBoards)
    /\ visible' = {"selection"}
    /\ inputValue' = Text("")
    /\ addBtnDisabled' = TRUE
    /\ UNCHANGED <<appPhase, allBoards, selectedBoards, cards, timerVars,
                   asyncQueue, dbVars, rng, uncaught>>
    /\ UNCHANGED <<swVars, trail>>

\* The user types value: the input event runs validateInput.
TypeInput(value) ==
    /\ ready
    /\ "selection" \in visible
    /\ inputValue' = value
    /\ addBtnDisabled' = ValidateInput(value, pendingSelected)
    /\ UNCHANGED <<appPhase, memVars, visible, cards, timerVars, asyncQueue,
                   dbVars, rng, uncaught>>
    /\ UNCHANGED <<swVars, trail>>

\* the test of addBoard without its upper limit
AddBoardAcceptsAbove(val, pending) ==
    ~val.nan /\ val.n >= 1 /\ ~Has(pending, val.n)

\* the test of addBoard
AddBoardAccepts(val, pending) ==
    ~val.nan /\ val.n >= 1 /\ val.n <= MaxBoards /\ ~Has(pending, val.n)

\* addBoard: Enter in the input, or a click on the enabled add button
AddBoard ==
    /\ ready
    /\ "selection" \in visible
    /\ LET val == ParseInt(inputValue)
       IN  IF AddBoardAccepts(val, pendingSelected)
           THEN /\ pendingSelected' = SetAdd(pendingSelected, val.n)
                /\ inputValue' = Text("")
                /\ addBtnDisabled' =
                     ValidateInput(Text(""), SetAdd(pendingSelected, val.n))
           ELSE UNCHANGED <<pendingSelected, inputValue, addBtnDisabled>>
    /\ UNCHANGED <<appPhase, allBoards, selectedBoards, visible, cards,
                   timerVars, asyncQueue, dbVars, rng, uncaught>>
    /\ UNCHANGED <<swVars, trail>>

\* The user types value and presses Enter at once: the input event, then the
\* keydown event.
TypeAndAdd(value) ==
    /\ ready
    /\ "selection" \in visible
    /\ LET val == ParseInt(value)
       IN  IF AddBoardAccepts(val, pendingSelected)
           THEN /\ pendingSelected' = SetAdd(pendingSelected, val.n)
                /\ inputValue' = Text("")
                /\ addBtnDisabled' =
                     ValidateInput(Text(""), SetAdd(pendingSelected, val.n))
           ELSE /\ inputValue' = value
                /\ addBtnDisabled' = ValidateInput(value, pendingSelected)
                /\ UNCHANGED pendingSelected
    /\ UNCHANGED <<appPhase, allBoards, selectedBoards, visible, cards,
                   timerVars, asyncQueue, dbVars, rng, uncaught>>
    /\ UNCHANGED <<swVars, trail>>

\* The user enters an id that has no chip yet.
EnterNewId(id) == ~Has(pendingSelected, id) /\ TypeAndAdd(Digits(id))

\* The remove button of the chip of id is clicked.
ChipRemove(id) ==
    /\ ready
    /\ "selection" \in visible
    /\ Has(pendingSelected, id)
    /\ pendingSelected' = SetDelete(pendingSelected, id)
    /\ addBtnDisabled' = ValidateInput(inputValue, SetDelete(pendingSelected, id))
    /\ UNCHANGED <<appPhase, allBoards, selectedBoards, visible, cards,
                   inputValue, timerVars, asyncQueue, dbVars, rng, uncaught>>
    /\ UNCHANGED <<swVars, trail>>

\* does confirmSelection call saveGameState for this selection
ConfirmSaves(selected) == Len(selected) > 0

ConfirmSelection ==
    /\ ready
    /\ "selection" \in visible
    /\ LET selected == SortedArray(pendingSelected)
       IN  /\ selectedBoards' = selected
           /\ IF Len(selected) > 0
              THEN /\ visible' = {"bingo"}
                   /\ cards' = RenderCards(selected, allBoards, 1)
                   /\ hlTimers' = <<>>
              ELSE /\ visible' = {"noBoards"}
                   /\ UNCHANGED <<cards, hlTimers>>
           /\ IF ConfirmSaves(selected)
              THEN /\ Len(asyncQueue) < MaxQueue
                   /\ asyncQueue' = CallSaveGameState(asyncQueue)
              ELSE UNCHANGED asyncQueue
    /\ UNCHANGED <<appPhase, allBoards, pendingSelected, inputValue,
                   addBtnDisabled, removeTimers, saveTimers, dbVars, rng, uncaught>>
    /\ UNCHANGED <<swVars, trail>>

CancelSelection ==
    /\ ready
    /\ "selection" \in visible
    /\ IF Len(selectedBoards) > 0
       THEN /\ visible' = {"bingo"}
            /\ cards' = RenderCards(selectedBoards, allBoards, 1)
            /\ hlTimers' = <<>>
       ELSE /\ visible' = {"noBoards"}
            /\ UNCHANGED <<cards, hlTimers>>
    /\ UNCHANGED <<appPhase, memVars, inputValue, addBtnDisabled, removeTimers,
                   saveTimers, asyncQueue, dbVars, rng, uncaught>>
    /\ UNCHANGED <<swVars, trail>>

(***************************************************************************)
(* Board cards (src/sw.js 796-914, 1044-1054)                              *)
(***************************************************************************)
\* debounce(func, wait) builds the debounced function and returns it; no
\* timer is set until the returned function is called. The timers after the
\* statement debounce(() => saveGameState(), 500) of toggleCell, which drops
\* the returned function:
DebounceStatement(timers) == timers

\* toggleCell that only ever adds
ToggleMarkedAdd(marked, index) == SetAdd(marked, index)

\* board.markedCells after the toggle of index
ToggleMarked(marked, index) ==
    IF Has(marked, index) THEN SetDelete(marked, index) ELSE SetAdd(marked, index)

\* timers of cards that are no longer in the document clear nothing
DropTimersOf(timers, c) == SelectSeq(timers, LAMBDA t : t.card # c)

\* toggleCell(cell, board, index, card): the cell index of card c is clicked
ToggleCell(c, index) ==
    /\ ready
    /\ "bingo" \in visible
    /\ c \in DOMAIN cards
    /\ IF index = FREE_SPACE_INDEX
       THEN UNCHANGED <<allBoards, cards, hlTimers, saveTimers>>
       ELSE LET id == cards[c].id
                board == [allBoards[id] EXCEPT
                            !.markedCells = ToggleMarked(@, index)]
                after == CheckBingo(board, cards[c])
            IN  /\ allBoards' = [allBoards EXCEPT ![id] = after.board]
                /\ cards' = [cards EXCEPT ![c] = after.card]
                /\ IF after.pattern # 0
                   THEN /\ Len(hlTimers) < MaxHighlights
                        /\ hlTimers' = Append(hlTimers,
                                          [card |-> c, pattern |-> after.pattern])
                   ELSE UNCHANGED hlTimers
                /\ saveTimers' = DebounceStatement(saveTimers)
    /\ UNCHANGED <<appPhase, selectedBoards, pendingSelected, visible,
                   inputValue, addBtnDisabled, removeTimers, asyncQueue, dbVars,
                   rng, uncaught>>
    /\ UNCHANGED swVars

\* a click on a cell, the trail not kept
ClickCell(c, index) == ToggleCell(c, index) /\ UNCHANGED trail

\* a timer callback that removes no class
ClearWinningNone(winning, pattern) == winning

\* pattern.forEach(i => cell.classList.remove('winning-cell'))
ClearWinning(winning, pattern) == winning \ Range(patterns[pattern])

\* the highlight timer: winning-cell is removed from the cells of the pattern
HighlightTimerFire ==
    /\ hlTimers # <<>>
    /\ LET t == Head(hlTimers)
       IN  cards' = [cards EXCEPT ![t.card].winning = ClearWinning(@, t.pattern)]
    /\ hlTimers' = Tail(hlTimers)
    /\ UNCHANGED <<appPhase, memVars, visible, inputValue, addBtnDisabled,
                   removeTimers, saveTimers, asyncQueue, dbVars, rng, uncaught>>
    /\ UNCHANGED <<swVars, trail>>

\* resetBoard without board.markedCells.add(FREE_SPACE_INDEX)
ResetMarkedCleared(board) == [board EXCEPT !.markedCells = <<>>, !.score = 0]

\* resetBoard without board.score = 0
ResetMarkedKeepsScore(board) ==
    [board EXCEPT !.markedCells = SetAdd(<<>>, FREE_SPACE_INDEX)]

\* board.markedCells.clear(); board.markedCells.add(FREE_SPACE_INDEX); score = 0
ResetMarked(board) ==
    [board EXCEPT !.markedCells = SetAdd(<<>>, FREE_SPACE_INDEX), !.score = 0]

\* resetBoard(board, card): the reset button of card c is clicked
ResetBoard(c) ==
    /\ ready
    /\ "bingo" \in visible
    /\ c \in DOMAIN cards
    /\ Len(asyncQueue) < MaxQueue
    /\ LET id == cards[c].id
       IN  /\ allBoards' = [allBoards EXCEPT ![id] = ResetMarked(@)]
           /\ cards' = [cards EXCEPT ![c] = Card(id, FALSE)]
    /\ hlTimers' = DropTimersOf(hlTimers, c)
    /\ asyncQueue' = CallSaveGameState(asyncQueue)
    /\ UNCHANGED <<appPhase, selectedBoards, pendingSelected, visible,
                   inputValue, addBtnDisabled, removeTimers, saveTimers, dbVars,
                   rng, uncaught>>
    /\ UNCHANGED <<swVars, trail>>

\* The remove button of card c is clicked: setTimeout(removeBoardById, 280).
RemoveClick(c) ==
    /\ ready
    /\ "bingo" \in visible
    /\ c \in DOMAIN cards
    /\ Len(removeTimers) < MaxTimers
    /\ removeTimers' = Append(removeTimers, cards[c].id)
    /\ UNCHANGED <<appPhase, memVars, domVars, hlTimers, saveTimers, asyncQueue,
                   dbVars, rng, uncaught>>
    /\ UNCHANGED <<swVars, trail>>

\* selectedBoards.splice(selectedBoards.indexOf(id), 1) when id is selected
Splice(selected, id) == SelectSeq(selected, LAMBDA x : x # id)

\* removeBoardById(id), run by the removal timer
RemoveBoardById ==
    /\ removeTimers # <<>>
    /\ Len(asyncQueue) < MaxQueue
    /\ LET id == Head(removeTimers)
           selected == Splice(selectedBoards, id)
       IN  /\ selectedBoards' = selected
           /\ IF Len(selected) = 0
              THEN /\ visible' = {"noBoards"}
                   /\ UNCHANGED <<cards, hlTimers>>
              ELSE /\ cards' = RenderCards(selected, allBoards, 1)
                   /\ hlTimers' = <<>>
                   /\ UNCHANGED visible
    /\ removeTimers' = Tail(removeTimers)
    /\ asyncQueue' = CallSaveGameState(asyncQueue)
    /\ UNCHANGED <<appPhase, allBoards, pendingSelected, inputValue,
                   addBtnDisabled, saveTimers, dbVars, rng, uncaught>>
    /\ UNCHANGED <<swVars, trail>>

(***************************************************************************)
(* Connection events and reload (src/sw.js 424-438, 1090-1108)             *)
(***************************************************************************)
\* online: syncOfflineData calls saveGameState
Online ==
    /\ ready
    /\ Len(asyncQueue) < MaxQueue
    /\ asyncQueue' = CallSaveGameState(asyncQueue)
    /\ UNCHANGED <<appPhase, memVars, domVars, timerVars, dbVars, rng, uncaught>>
    /\ UNCHANGED <<swVars, trail>>

\* offline: enableOfflineMode calls loadGameState
Offline ==
    /\ ready
    /\ Len(asyncQueue) < MaxQueue
    /\ asyncQueue' = Append(asyncQueue, "loadGameState")
    /\ UNCHANGED <<appPhase, memVars, domVars, timerVars, dbVars, rng, uncaught>>
    /\ UNCHANGED <<swVars, trail>>

\* Module state and document as the script finds them when it starts.
FreshPage ==
    /\ appPhase = "start"
    /\ allBoards = <<>>
    /\ selectedBoards = <<>>
    /\ pendingSelected = <<>>
    /\ visible = {}
    /\ cards = <<>>
    /\ inputValue = Text("")
    /\ addBtnDisabled = FALSE
    /\ removeTimers = <<>>
    /\ hlTimers = <<>>
    /\ saveTimers = <<>>
    /\ asyncQueue = <<>>
    /\ uncaught = FALSE

(***************************************************************************)
(* Random outcomes                                                         *)
(***************************************************************************)
\* every column of every board draws the same stream
SameStream(stream) == [id \in BoardIds |-> [col \in 0..4 |-> stream]]

\* The streams a page load of the client specification may draw.
ClientRngs == {SameStream(<<14, 3, 3, 7, 0, 9>>)}

\* The outcomes of Math.floor(Math.random() * 15) the generator specification draws.
DrawOffsets == {0, 1, 6, 7, 13, 14}

\* the longest stream of draws of one column
MaxDraws == 6

\* The streams the while loop of a column consumes entirely: the fifth
\* distinct number comes with the last draw.
GenStreams ==
    {s \in UNION {[1..n -> DrawOffsets] : n \in 5..MaxDraws} :
        /\ Len(ColLoop(BINGO_RANGES[1], <<>>, s)) = 5
        /\ Len(ColLoop(BINGO_RANGES[1], <<>>, SubSeq(s, 1, Len(s) - 1))) < 5}

\* The page is loaded again: the script starts with fresh memory and document,
\* and the random outcomes of its generator are one of rngs.
ReloadWith(rngs) ==
    /\ appPhase # "start"
    /\ appPhase' = "start"
    /\ allBoards' = <<>>
    /\ selectedBoards' = <<>>
    /\ pendingSelected' = <<>>
    /\ visible' = {}
    /\ cards' = <<>>
    /\ inputValue' = Text("")
    /\ addBtnDisabled' = FALSE
    /\ removeTimers' = <<>>
    /\ hlTimers' = <<>>
    /\ saveTimers' = <<>>
    /\ asyncQueue' = <<>>
    /\ rng' \in rngs
    /\ uncaught' = FALSE
    /\ UNCHANGED dbVars
    /\ UNCHANGED <<swVars, trail>>

Reload == ReloadWith(ClientRngs)

(***************************************************************************)
(* Specifications                                                          *)
(***************************************************************************)
\* The first visit: nothing is stored.
EmptyDatabase == dbBoards = <<>> /\ dbGameState = Undefined

\* The worker context while the client is explored.
WorkerAtRest ==
    /\ swState = "parsed"
    /\ cacheStorage = <<>>
    /\ skipWaitingFlag = FALSE
    /\ oldWorkerActive = FALSE
    /\ actPending = {}
    /\ actDeleted = {}
    /\ claimed = FALSE
    /\ req = NoRequest
    /\ pc = "idle"
    /\ netResp = Undefined
    /\ netFailed = FALSE
    /\ result = Undefined
    /\ bgUpdates = {}

\* The ids the user enters in the client specification: both ends of the range.
TypedIds == {1, MaxBoards}

\* The cells the user clicks in the client specification.
ClickedCells == {0, FREE_SPACE_INDEX}

Init ==
    /\ FreshPage
    /\ EmptyDatabase
    /\ rng \in ClientRngs
    /\ trail = <<>>
    /\ WorkerAtRest

Next ==
    \/ InitRegister
    \/ ResolveLoadFromIndexedDB
    \/ ResolveSaveToIndexedDB
    \/ ResolveSaveGameState
    \/ ResolveLoadGameState
    \/ OpenSelectionMode
    \/ \E id \in TypedIds : EnterNewId(id)
    \/ \E id \in BoardIds : ChipRemove(id)
    \/ ConfirmSelection
    \/ CancelSelection
    \/ \E c \in BoardIds, index \in ClickedCells : ClickCell(c, index)
    \/ \E c \in BoardIds : ResetBoard(c)
    \/ \E c \in BoardIds : RemoveClick(c)
    \/ RemoveBoardById
    \/ Online
    \/ Offline
    \/ Reload

\* The client.
Spec == Init /\ [][Next]_vars

InitSW ==
    /\ InitWorker
    /\ FreshPage
    /\ EmptyDatabase
    /\ rng = SameStream(<<0, 1, 2, 3, 4>>)
    /\ trail = <<>>

NextSW == NextWorker

\* The worker.
SpecSW == InitSW /\ [][NextSW]_vars

InitGen ==
    /\ FreshPage
    /\ EmptyDatabase
    /\ rng \in {SameStream(s) : s \in GenStreams}
    /\ trail = <<>>
    /\ WorkerAtRest

NextGen ==
    \/ InitRegister
    \/ ResolveLoadFromIndexedDB
    \/ ResolveSaveToIndexedDB
    \/ ResolveLoadGameState

\* The first page load, over the streams of random outcomes.
SpecGen == InitGen /\ [][NextGen]_vars

\* The streams a page load of the loading specification may draw: two page
\* loads can generate different pools.
LoadRngs == {SameStream(<<14, 3, 3, 7, 0, 9>>), SameStream(<<0, 1, 2, 3, 4>>),
             SameStream(<<5, 5, 6, 7, 8, 9>>)}

ReloadDraw == ReloadWith(LoadRngs)

InitLoad ==
    /\ FreshPage
    /\ EmptyDatabase
    /\ rng \in LoadRngs
    /\ trail = <<>>
    /\ WorkerAtRest

NextLoad ==
    \/ InitRegister
    \/ ResolveLoadFromIndexedDB
    \/ ResolveSaveToIndexedDB
    \/ ResolveLoadGameState
    \/ ResolveSaveGameState
    \/ Online
    \/ Offline
    \/ ReloadDraw

\* Page loads one after another over a database that keeps what was stored.
SpecLoad == InitLoad /\ [][NextLoad]_vars

\* The page after its first load: the pool is generated and stored, the
\* no-boards section is shown.
InitSelect ==
    /\ rng \in ClientRngs
    /\ allBoards = GenerateMockBoards(rng)
    /\ appPhase = "ready"
    /\ selectedBoards = <<>>
    /\ pendingSelected = <<>>
    /\ visible = {"noBoards"}
    /\ cards = <<>>
    /\ inputValue = Text("")
    /\ addBtnDisabled = FALSE
    /\ removeTimers = <<>>
    /\ hlTimers = <<>>
    /\ saveTimers = <<>>
    /\ asyncQueue = <<>>
    /\ dbBoards = PutBoards(<<>>, GenerateMockBoards(rng))
    /\ dbGameState = Undefined
    /\ uncaught = FALSE
    /\ trail = <<>>
    /\ WorkerAtRest

NextSelect ==
    \/ OpenSelectionMode
    \/ \E value \in InputValues : TypeInput(value)
    \/ AddBoard
    \/ \E id \in BoardIds : ChipRemove(id)
    \/ ConfirmSelection
    \/ CancelSelection
    \/ ResolveSaveGameState

\* The selection section: typing, adding, removing chips, OK and cancel.
SpecSelect == InitSelect /\ [][NextSelect]_vars

NextPick ==
    \/ NextSelect
    \/ \E c \in BoardIds : RemoveClick(c)
    \/ RemoveBoardById

\* The selection section and the remove buttons of the cards.
SpecPick == InitSelect /\ [][NextPick]_vars

(***************************************************************************)
(* One displayed board under clicks                                        *)
(***************************************************************************)
\* clicks the trail keeps
MaxGestures == 2

\* What a click left on the trail: the board and the card before and after it.
Gesture(c, index, board, card, boardAfter, cardAfter) ==
    [card |-> c, index |-> index,
     marked |-> board.markedCells, score |-> board.score, winning |-> card.winning,
     markedAfter |-> boardAfter.markedCells, scoreAfter |-> boardAfter.score,
     winningAfter |-> cardAfter.winning]

\* a click on a cell of card c, kept on the trail
LoggedClick(c, index) ==
    /\ Len(trail) < MaxGestures
    /\ index # FREE_SPACE_INDEX
    /\ ToggleCell(c, index)
    /\ trail' = Append(trail, Gesture(c, index, allBoards[cards[c].id], cards[c],
                                      allBoards'[cards[c].id], cards'[c]))

\* a click on the free cell
FreeClick(c) == ToggleCell(c, FREE_SPACE_INDEX) /\ UNCHANGED trail

\* the board after the cells were clicked in turn, the highlights left aside
RECURSIVE PlayCells(_, _)
PlayCells(board, clicks) ==
    IF clicks = <<>> \/ board.score < 0   \* the test has TLC evaluate each step
    THEN board
    ELSE PlayCells(CheckBingo([board EXCEPT !.markedCells =
                                  ToggleMarked(@, Head(clicks))],
                              Card(board.id, TRUE)).board,
                   Tail(clicks))

\* The clicks a game has seen when the exploration starts.
StartGames ==
    { <<>>,
      <<0, 1, 2, 3>>,
      <<0, 1, 2, 3, 4>>,
      <<10, 11, 13>>,
      <<5, 10, 15, 20>>,
      <<6, 18, 24>>,
      <<0, 6, 18, 24, 4, 8, 16>>,
      <<1, 2, 3, 4, 5, 10, 15, 20>>,
      <<5, 10, 15, 20, 6, 18, 24>>,
      <<0, 10, 15, 20, 6, 7, 8, 9>>,
      <<0, 1, 2, 3, 4, 5, 6, 7, 8, 9>>,
      <<1, 2, 3, 4, 5, 6, 7, 8, 9, 10, 11, 13, 14, 15, 16, 17, 18, 19, 20,
        21, 22, 23, 24>>,
      <<0, 1, 2, 3, 4, 5, 6, 7, 8, 9, 10, 11, 13, 14, 15, 16, 17, 18, 19, 20,
        21, 22, 23, 24>> }

\* Board 1 was selected and confirmed, the save has ended, the game was played
\* and the highlights have gone.
InitBoard ==
    /\ rng \in ClientRngs
    /\ \E clicks \in StartGames :
         allBoards = [GenerateMockBoards(rng) EXCEPT ![1] = PlayCells(@, clicks)]
    /\ appPhase = "ready"
    /\ selectedBoards = <<1>>
    /\ pendingSelected = <<1>>
    /\ visible = {"bingo"}
    /\ cards = RenderCards(<<1>>, allBoards, 1)
    /\ inputValue = Text("")
    /\ addBtnDisabled = ValidateInput(Text(""), <<1>>)
    /\ removeTimers = <<>>
    /\ hlTimers = <<>>
    /\ saveTimers = <<>>
    /\ asyncQueue = <<>>
    /\ dbBoards = PutBoards(<<>>, GenerateMockBoards(rng))
    /\ dbGameState = Snapshot(<<1>>, GenerateMockBoards(rng))
    /\ uncaught = FALSE
    /\ trail = <<>>
    /\ WorkerAtRest

NextBoard ==
    \/ \E index \in Cells : LoggedClick(1, index)
    \/ FreeClick(1)
    \/ HighlightTimerFire

\* One displayed board, clicked.
SpecBoard == InitBoard /\ [][NextBoard]_vars

\* The clicks board 1 has seen when the reset specification starts.
ResetGames == { <<>>, <<0, 1, 2, 3>>, <<0, 1, 2, 3, 4>>, <<0, 1, 2, 3, 4, 4, 4>> }

\* The cells clicked in the reset specification.
ResetCells == {0, 4}

\* Boards 1 and 2 were selected and confirmed, the save has ended, both were
\* played and the highlights have gone.
InitReset ==
    /\ rng \in ClientRngs
    /\ \E clicks \in ResetGames :
         allBoards = [GenerateMockBoards(rng) EXCEPT
                         ![1] = PlayCells(@, clicks),
                         ![2] = PlayCells(@, <<5, 10, 15, 20, 0>>)]
    /\ appPhase = "ready"
    /\ selectedBoards = <<1, 2>>
    /\ pendingSelected = <<1, 2>>
    /\ visible = {"bingo"}
    /\ cards = RenderCards(<<1, 2>>, allBoards, 1)
    /\ inputValue = Text("")
    /\ addBtnDisabled = ValidateInput(Text(""), <<1, 2>>)
    /\ removeTimers = <<>>
    /\ hlTimers = <<>>
    /\ saveTimers = <<>>
    /\ asyncQueue = <<>>
    /\ dbBoards = PutBoards(<<>>, GenerateMockBoards(rng))
    /\ dbGameState = Snapshot(<<1, 2>>, GenerateMockBoards(rng))
    /\ uncaught = FALSE
    /\ trail = <<>>
    /\ WorkerAtRest

NextReset ==
    \/ \E c \in 1..2, index \in ResetCells : LoggedClick(c, index)
    \/ \E c \in 1..2 : ResetBoard(c)
    \/ ResolveSaveGameState
    \/ HighlightTimerFire

\* Two displayed boards, clicked and reset.
SpecReset == InitReset /\ [][NextReset]_vars

\* Boards 1 and 2 were selected and confirmed and the save has ended.
InitRemove ==
    /\ rng \in ClientRngs
    /\ allBoards = GenerateMockBoards(rng)
    /\ appPhase = "ready"
    /\ selectedBoards = <<1, 2>>
    /\ pendingSelected = <<1, 2>>
    /\ visible = {"bingo"}
    /\ cards = RenderCards(<<1, 2>>, allBoards, 1)
    /\ inputValue = Text("")
    /\ addBtnDisabled = ValidateInput(Text(""), <<1, 2>>)
    /\ removeTimers = <<>>
    /\ hlTimers = <<>>
    /\ saveTimers = <<>>
    /\ asyncQueue = <<>>
    /\ dbBoards = PutBoards(<<>>, GenerateMockBoards(rng))
    /\ dbGameState = Snapshot(<<1, 2>>, GenerateMockBoards(rng))
    /\ uncaught = FALSE
    /\ trail = <<>>
    /\ WorkerAtRest

\* The user removes boards and chips, opens, confirms and cancels the
\* selection, and never adds an id.
NextRemove ==
    \/ \E c \in 1..2 : RemoveClick(c)
    \/ RemoveBoardById
    \/ OpenSelectionMode
    \/ \E id \in BoardIds : ChipRemove(id)
    \/ ConfirmSelection
    \/ CancelSelection
    \/ ResolveSaveGameState

\* Two displayed boards, removed while the selection is edited.
SpecRemove == InitRemove /\ [][NextRemove]_vars

(***************************************************************************)
(* Properties of the worker (checked under SpecSW)                         *)
(***************************************************************************)
\* C1: whenever a fetch handler has finished a request whose network fetch
\* failed, it has resolved with a Response (a cached one or a synthetic 503),
\* never with no response.
C1_FailedFetchResolvesWithResponse ==
    (pc = "done" /\ netFailed) => IsResponse(result)

\* C2: once activation has completed, no cache with a name other than
\* CACHE_NAME exists, and activation has not deleted the CACHE_NAME cache.
C2_ActivateLeavesOnlyCurrent ==
    swState = "activated" =>
        /\ CacheNames(cacheStorage) \subseteq {CACHE_NAME}
        /\ actPending = {}
        /\ CACHE_NAME \notin actDeleted

\* C2 witness: activation completed after deleting both old caches, and the
\* current cache is still there.
C2_Witness ==
    /\ swState = "activated"
    /\ actDeleted = OldCacheNames
    /\ CacheNames(cacheStorage) = {CACHE_NAME}

(***************************************************************************)
(* Properties of the fetch strategies (checked under SpecSW)               *)
(***************************************************************************)
\* the entry of the current cache under path
CurrentEntry(cs, path) == cs[IndexOfCache(cs, CACHE_NAME)].entries[path]

\* the handler of the running fetch event resolves in this step
Resolves == pc \notin {"idle", "done"} /\ pc' = "done"

\* status in 200..299
StatusOk(resp) == resp.status \in 200..299

\* C11: a navigation whose network fetch failed is answered with the cached
\* entry of the request when there is one, and otherwise with the cached
\* /index.html when that is cached; the response is the cached document itself.
C11_NavigationOfflineFallback ==
    [][/\ (pc = "nav_match" /\ pc' # pc /\ Cached(cacheStorage, CACHE_NAME, req.path))
          => (pc' = "done" /\ result' = CurrentEntry(cacheStorage, req.path))
       /\ (pc = "nav_fallback" /\ pc' # pc
           /\ Cached(cacheStorage, CACHE_NAME, "/index.html"))
          => (pc' = "done" /\ result' = CurrentEntry(cacheStorage, "/index.html"))
      ]_vars

\* C11 witness: the navigation to /play failed on the network, /play is not
\* cached, and the answer is the pre-cached /index.html.
C11_Witness ==
    /\ pc = "done" /\ netFailed
    /\ req = GetRequest("/play", "navigate")
    /\ ~Cached(cacheStorage, CACHE_NAME, "/play")
    /\ Cached(cacheStorage, CACHE_NAME, "/index.html")
    /\ result = CurrentEntry(cacheStorage, "/index.html")

\* C12: when the install phase completes, the CACHE_NAME cache holds an entry
\* for every path of STATIC_ASSETS.
C12_InstalledHasAllAssets ==
    [][(swState = "installing" /\ swState' = "installed")
          => \A p \in STATIC_ASSETS : Cached(cacheStorage', CACHE_NAME, p)]_vars

\* C13: pages are claimed only after every deletion of a non-current cache
\* has completed: no state has the pages claimed and a non-current cache left.
C13_ClaimAfterDeletions ==
    claimed => /\ actPending = {}
               /\ \A n \in CacheNames(cacheStorage) : n = CACHE_NAME

\* C13 witness: the pages are claimed after two old caches were deleted, and
\* no fetch has been handled yet.
C13_Witness ==
    /\ claimed
    /\ Cardinality(actDeleted) = 2
    /\ pc = "idle"

\* C14: a static-list request with a cached entry is answered with that entry
\* and starts a background fetch; the background fetch replaces the entry when
\* it succeeds with an ok status and leaves the cache alone otherwise; with no
\* cached entry the network response is returned and, if ok, stored.
C14_StaticCacheFirstRefresh ==
    [][/\ (pc = "static_match" /\ pc' # pc /\ Cached(cacheStorage, CACHE_NAME, req.path))
          => /\ pc' = "done"
             /\ result' = CurrentEntry(cacheStorage, req.path)
             /\ [request |-> req, stage |-> "fetch"] \in bgUpdates'
             /\ cacheStorage' = cacheStorage
       /\ \A t \in bgUpdates \ bgUpdates' :
             IF t.stage = "fetch"
             THEN cacheStorage' = cacheStorage
             ELSE /\ Cached(cacheStorage', CACHE_NAME, t.request.path)
                  /\ StatusOk(CurrentEntry(cacheStorage', t.request.path))
                  /\ CurrentEntry(cacheStorage', t.request.path).body = "net"
       /\ (pc \in {"static_fetch", "static_open"} /\ Resolves /\ ~netFailed')
          => /\ result' = netResp'
             /\ result'.body \in {"net", "net-error"}
             /\ IF StatusOk(netResp')
                THEN /\ Cached(cacheStorage', CACHE_NAME, req.path)
                     /\ CurrentEntry(cacheStorage', req.path) = netResp'
                ELSE cacheStorage' = cacheStorage
      ]_vars

\* C14 witness: /style.css was answered from the pre-cache and the background
\* refresh has since replaced the entry with the network's response.
C14_Witness ==
    /\ pc = "done"
    /\ req = GetRequest("/style.css", "no-cors")
    /\ result = Response(200, "pre")
    /\ bgUpdates = {}
    /\ Cached(cacheStorage, CACHE_NAME, "/style.css")
    /\ CurrentEntry(cacheStorage, "/style.css") = Response(200, "net")

\* C15: a navigation whose network fetch succeeds is answered with the
\* network response, cached entry or not, and the response is stored in the
\* current cache under the request exactly when its status is ok.
C15_NavigationNetworkFirst ==
    [][(pc \in {"nav_fetch", "nav_open"} /\ Resolves /\ ~netFailed')
          => /\ result' = netResp'
             /\ result'.body \in {"net", "net-error"}
             /\ IF StatusOk(netResp')
                THEN /\ Cached(cacheStorage', CACHE_NAME, req.path)
                     /\ CurrentEntry(cacheStorage', req.path) = netResp'
                ELSE cacheStorage' = cacheStorage
      ]_vars

\* C15 witness: the navigation to / got an error status from the network and
\* is answered with it although / is cached.
C15_Witness ==
    /\ pc = "done" /\ ~netFailed
    /\ req = GetRequest("/", "navigate")
    /\ result = Response(404, "net-error")
    /\ Cached(cacheStorage, CACHE_NAME, "/")

\* C16: any other same-origin request with a cached entry is answered with it
\* and no network fetch; on a miss the network response is returned, and it
\* is stored exactly when its status is ok, the method is GET and the path
\* holds neither 'analytics' nor 'tracking'.
C16_DefaultCacheThenNetwork ==
    [][/\ (pc = "def_match" /\ pc' # pc /\ req.method = "GET"
           /\ Cached(cacheStorage, CACHE_NAME, req.path))
          => /\ pc' = "done"
             /\ result' = CurrentEntry(cacheStorage, req.path)
             /\ netResp' = Undefined /\ ~netFailed'
             /\ cacheStorage' = cacheStorage
       /\ (pc \in {"def_fetch", "def_open"} /\ Resolves /\ ~netFailed')
          => /\ result' = netResp'
             /\ result'.body \in {"net", "net-error"}
             /\ IF StatusOk(netResp') /\ req.method = "GET"
                   /\ req.path \notin {"/analytics.js"}
                THEN /\ Cached(cacheStorage', CACHE_NAME, req.path)
                     /\ CurrentEntry(cacheStorage', req.path) = netResp'
                ELSE cacheStorage' = cacheStorage
      ]_vars

\* C16 witness: /analytics.js was fetched with an ok status and answered, and
\* is not in the cache, while /img/logo.png is.
C16_Witness ==
    /\ pc = "done" /\ ~netFailed
    /\ req = GetRequest("/analytics.js", "no-cors")
    /\ result = Response(200, "net")
    /\ ~Cached(cacheStorage, CACHE_NAME, "/analytics.js")
    /\ Cached(cacheStorage, CACHE_NAME, "/img/logo.png")

(***************************************************************************)
(* Properties of the client (checked under Spec)                           *)
(***************************************************************************)
\* C3: in every reachable state every board of allBoards has index 12
\* (FREE_SPACE_INDEX) in its markedCells.
C3_FreeCellAlwaysMarked ==
    \A id \in DOMAIN allBoards : Has(allBoards[id].markedCells, FREE_SPACE_INDEX)

\* C3 witness: a card was reset, a cell of its board was marked after that, and
\* a removal has emptied the selection since.
C3_Witness ==
    /\ ready
    /\ selectedBoards = <<>>
    /\ \E c \in DOMAIN cards :
         /\ ~cards[c].isFirst
         /\ c = 1
         /\ allBoards[cards[c].id].markedCells = <<FREE_SPACE_INDEX, 0>>

\* C4: a toggle of a non-free cell leaves a save on its way: the step arms the
\* debounce timer or issues saveGameState.
C4_ToggleArmsSave ==
    [][(\E c \in BoardIds : ClickCell(c, 0))
          => (saveTimers' # saveTimers \/ asyncQueue' # asyncQueue)]_vars

\* C5: when the stored game state is the snapshot of the memory (a save has
\* ended and nothing changed since), a loadGameState that ends leaves
\* selectedBoards with the same ids in the same order and every board with
\* the same set of marked cells.
C5_SaveLoadRoundTrip ==
    [][(ResolveLoadGameState /\ dbGameState = Snapshot(selectedBoards, allBoards))
          => /\ selectedBoards' = selectedBoards
             /\ DOMAIN allBoards' = DOMAIN allBoards
             /\ \A id \in DOMAIN allBoards :
                  Range(allBoards'[id].markedCells) = Range(allBoards[id].markedCells)
      ]_vars

\* C6: when initApp ends on a page whose storage holds a saved game state,
\* selectedBoards and every board's markedCells and score are the saved ones.
C6_ReloadRestoresSaved ==
    [][(appPhase # "ready" /\ appPhase' = "ready" /\ asyncQueue' = <<>>
        /\ dbGameState # Undefined)
          => /\ selectedBoards' = dbGameState.selectedBoards
             /\ DOMAIN allBoards' = DOMAIN dbGameState.boards
             /\ \A id \in DOMAIN allBoards' :
                  /\ Range(allBoards'[id].markedCells)
                       = Range(dbGameState.boards[id].markedCells)
                  /\ allBoards'[id].score = dbGameState.boards[id].score
      ]_vars

(***************************************************************************)
(* Properties of the win check and the toggle (checked under SpecBoard)    *)
(***************************************************************************)
\* The cells of line k in the order of the rules: rows top to bottom (1..5),
\* columns left to right (6..10), main diagonal (11), anti-diagonal (12).
LineCells(k) ==
    IF k <= 5 THEN {5 * (k - 1) + j : j \in 0..4}
    ELSE IF k <= 10 THEN {(k - 6) + 5 * j : j \in 0..4}
    ELSE IF k = 11 THEN {6 * j : j \in 0..4}
    ELSE {4 * (j + 1) : j \in 0..4}

FullLines(marked) == {k \in 1..12 : LineCells(k) \subseteq Range(marked)}

Least(S) == CHOOSE k \in S : \A m \in S : k <= m

\* C7: a click on a non-free cell, which runs checkBingo once, adds exactly 1
\* to the score when at least one line is fully marked after it, and leaves
\* the score when none is (stated of the latest click).
C7_ScoreUpByOneIffLine ==
    trail # <<>> =>
        LET last == trail[Len(trail)]
        IN  last.scoreAfter
                = last.score + (IF FullLines(last.markedAfter) # {} THEN 1 ELSE 0)

\* C7 witness: a click left all 25 cells marked and the score one higher.
C7_Witness ==
    \E g \in 1..Len(trail) :
        /\ Range(trail[g].markedAfter) = Cells
        /\ trail[g].scoreAfter = trail[g].score + 1

\* C8: the cells checkBingo flags in one run are those of the first fully
\* marked line in the order rows, columns, main diagonal, anti-diagonal, and
\* of no other line (stated of the latest click).
C8_FirstFullLineFlagged ==
    trail # <<>> =>
        LET last == trail[Len(trail)]
            full == FullLines(last.markedAfter)
        IN  last.winningAfter
                = last.winning \cup (IF full = {} THEN {} ELSE LineCells(Least(full)))

\* C8 witness: one click completed a row and a column at once, no cell was
\* flagged before it, and the cells of the row alone are flagged after it.
C8_Witness ==
    \E g \in 1..Len(trail) :
        /\ trail[g].winning = {}
        /\ FullLines(trail[g].marked) = {}
        /\ FullLines(trail[g].markedAfter) = {2, 6}
        /\ trail[g].winningAfter = {5, 6, 7, 8, 9}

\* C9: two clicks in a row on the same non-free cell leave the board's
\* markedCells the set it was before the first.
C9_ToggleTwiceRestores ==
    \A g \in 1..(Len(trail) - 1) :
        (trail[g].card = trail[g + 1].card /\ trail[g].index = trail[g + 1].index)
            => Range(trail[g + 1].markedAfter) = Range(trail[g].marked)

\* C9 witness: a marked cell was clicked twice in a row; it was unmarked in
\* between and the board holds the set of before.
C9_Witness ==
    \E g \in 1..(Len(trail) - 1) :
        /\ trail[g].index = trail[g + 1].index
        /\ trail[g].index \in Range(trail[g].marked)
        /\ trail[g].index \notin Range(trail[g].markedAfter)
        /\ Range(allBoards[1].markedCells) = Range(trail[g].marked)

(***************************************************************************)
(* Properties of the generator (checked under SpecGen)                     *)
(***************************************************************************)
\* the cells of column c from top to bottom, the free cell left out
ColumnCells(c) == SelectSeq(<<c, c + 5, c + 10, c + 15, c + 20>>,
                            LAMBDA i : i # FREE_SPACE_INDEX)

\* C10: every generated board has 25 slots, the FREE sentinel at index 12 and
\* nowhere else, and in every column c the numbers are strictly increasing
\* from top to bottom (so pairwise distinct) and within 15c+1 .. 15c+15.
C10_GeneratedBoardShape ==
    \A id \in DOMAIN allBoards :
        LET numbers == allBoards[id].numbers
        IN  /\ DOMAIN numbers = 0..24
            /\ \A i \in 0..24 : (numbers[i] = FREE) <=> (i = FREE_SPACE_INDEX)
            /\ \A c \in 0..4 :
                 LET cells == ColumnCells(c)
                 IN  /\ \A k \in 1..Len(cells) :
                          numbers[cells[k]] \in (15 * c + 1)..(15 * c + 15)
                     /\ \A k \in 1..(Len(cells) - 1) :
                          numbers[cells[k]] < numbers[cells[k + 1]]
                     /\ \A k, m \in 1..Len(cells) :
                          k # m => numbers[cells[k]] # numbers[cells[m]]

\* C10 witness: the boards were generated from draws that repeat a number and
\* come out of order, with both ends of the range drawn.
C10_Witness ==
    /\ allBoards # <<>>
    /\ rng[1][0] = <<14, 7, 7, 0, 13, 1>>
    /\ [r \in 0..4 |-> allBoards[1].numbers[5 * r]] = [r \in 0..4 |->
                                                         <<1, 2, 8, 14, 15>>[r + 1]]

(***************************************************************************)
(* Properties of loading (checked under SpecLoad)                          *)
(***************************************************************************)
\* the boards of the store as loadFromIndexedDB maps them for allBoards
StoredBoards(store) == [k \in DOMAIN store |-> Rehydrate(store[k])]

\* a pool as generateMockBoards leaves it, whatever its numbers
FreshPool(boards) ==
    /\ DOMAIN boards = 1..MaxBoards
    /\ \A id \in 1..MaxBoards :
         /\ boards[id].id = id
         /\ boards[id].markedCells = <<FREE_SPACE_INDEX>>
         /\ boards[id].score = 0

\* C17: loadBoards always completes and initApp goes on; when the boards store
\* is empty or cannot be opened, allBoards is a fresh pool of MAX_BOARDS boards
\* with ids 1..MAX_BOARDS, only the free cell marked and score 0; when boards
\* are stored and the store can be read, allBoards is the stored boards.
C17_LoadYieldsStoredOrFresh ==
    [][\A openOk \in BOOLEAN :
         LoadBoards(openOk) =>
             /\ appPhase' \in {"saveBoards", "ready"}
             /\ IF openOk /\ dbBoards # <<>>
                THEN allBoards' = StoredBoards(dbBoards)
                ELSE FreshPool(allBoards')]_vars

\* C18: when the boards store holds a board and can be read as loadBoards
\* runs, generateMockBoards is not called and no saveToIndexedDB of a new
\* pool is started.
C18_NoRegenerationWhenStored ==
    [][(LoadBoards(TRUE) /\ dbBoards # <<>>) =>
           /\ appPhase' = "ready"
           /\ \A k \in DOMAIN asyncQueue' : asyncQueue'[k] # "saveToIndexedDB"]_vars

(***************************************************************************)
(* Properties of the writes (checked under Spec)                           *)
(***************************************************************************)
\* C19: no save leaves an exception unhandled; a saveGameState that fails
\* leaves memory, the document and both stores as they were; a saveToIndexedDB
\* that fails leaves allBoards, the selection and the store as they were and
\* initApp goes on to the no-boards section; confirmSelection, resetBoard and
\* removeBoardById end with the write only started: the stores are untouched
\* by their step and the page stays ready.
C19_WritesNeverFatal ==
    [][/\ uncaught' = FALSE
       /\ SaveGameState(FALSE) =>
              /\ UNCHANGED <<memVars, domVars, dbVars, appPhase>>
       /\ SaveToIndexedDB(FALSE) =>
              /\ UNCHANGED <<memVars, dbVars>>
              /\ appPhase' = "ready"
              /\ visible' = {"noBoards"}
       /\ (ConfirmSelection \/ RemoveBoardById \/ \E c \in BoardIds : ResetBoard(c)) =>
              /\ UNCHANGED dbVars
              /\ appPhase' = "ready"
              /\ ~uncaught']_vars

\* a selection was confirmed and its saveGameState ended without a record put
C19_Witness ==
    /\ appPhase = "ready"
    /\ selectedBoards # <<>>
    /\ visible = {"bingo"}
    /\ asyncQueue = <<>>
    /\ dbGameState = Undefined
    /\ dbBoards = <<>>
    /\ ~uncaught

(***************************************************************************)
(* Properties of the id input (checked under SpecSelect)                   *)
(***************************************************************************)
\* the value has no leading numeral in 1..MAX_BOARDS, or its id is pending
Rejected(value, pending) ==
    LET val == ParseInt(value)
    IN  val.nan \/ val.n \notin 1..MaxBoards \/ Has(pending, val.n)

\* C20: when the typed value does not parse to an integer in 1..MAX_BOARDS or
\* its id is already pending, validateInput leaves the add button disabled and
\* addBoard leaves pendingSelected as it was; pendingSelected only holds ids
\* of 1..MAX_BOARDS or ids of selectedBoards.
C20_InvalidInputRejected ==
    [][/\ \A value \in InputValues :
            (TypeInput(value) /\ Rejected(value, pendingSelected)) => addBtnDisabled'
       /\ (AddBoard /\ Rejected(inputValue, pendingSelected)) =>
              pendingSelected' = pendingSelected
       /\ \A k \in DOMAIN pendingSelected' :
            \/ pendingSelected'[k] \in 1..MaxBoards
            \/ Has(selectedBoards', pendingSelected'[k])]_vars

\* every id is pending, the numeral above the range is typed, the button is
\* disabled
C20_Witness ==
    /\ "selection" \in visible
    /\ Len(pendingSelected) = MaxBoards
    /\ inputValue = Digits(MaxBoards + 1)
    /\ addBtnDisabled

(***************************************************************************)
(* Properties of the highlight (checked under SpecBoard)                   *)
(***************************************************************************)
\* the cells the pending highlight timers of card c will clear
PendingClear(c) ==
    UNION {Range(patterns[hlTimers[k].pattern]) :
              k \in {j \in DOMAIN hlTimers : hlTimers[j].card = c}}

\* C21: every cell of a card that carries the winning highlight is a cell of a
\* pattern whose 2000 ms timer is still pending for that card; the timers
\* have one delay and fire in the order they were set, so once the timer of
\* the last win of a card has fired no cell of the card is highlighted.
C21_HighlightTransient ==
    \A c \in DOMAIN cards : cards[c].winning \subseteq PendingClear(c)

\* the last click flagged a pattern and its timer has fired
C21_Witness ==
    /\ trail # <<>>
    /\ trail[Len(trail)].winningAfter # {}
    /\ hlTimers = <<>>
    /\ cards[1].winning = {}

(***************************************************************************)
(* Properties of the messages (checked under SpecSW)                       *)
(***************************************************************************)
\* a cache of the storage holds a response
HoldsResponses(cs) == \E i \in 1..Len(cs) : DOMAIN cs[i].entries # {}

\* C22: after the CLEAR_CACHE message is handled and its deletion is done, no
\* cache holds a response, whatever caches existed before; the SKIP_WAITING
\* message changes no cache.
C22_ClearCacheClearsAll ==
    [][/\ MessageClearCache => ~HoldsResponses(cacheStorage')
       /\ MessageSkipWaiting => cacheStorage' = cacheStorage]_vars

(***************************************************************************)
(* Properties of resetBoard (checked under SpecReset)                      *)
(***************************************************************************)
\* C23: resetBoard on the board of a card leaves that board with markedCells
\* holding the free cell only and score 0, its numbers as they were, every
\* other board and selectedBoards as they were, and starts a saveGameState.
C23_ResetFrame ==
    [][\A c \in 1..2 :
         ResetBoard(c) =>
             LET id == cards[c].id
             IN  /\ allBoards'[id].markedCells = <<FREE_SPACE_INDEX>>
                 /\ allBoards'[id].score = 0
                 /\ allBoards'[id].numbers = allBoards[id].numbers
                 /\ \A other \in DOMAIN allBoards \ {id} :
                      allBoards'[other] = allBoards[other]
                 /\ DOMAIN allBoards' = DOMAIN allBoards
                 /\ selectedBoards' = selectedBoards
                 /\ asyncQueue' = Append(asyncQueue, "saveGameState")]_vars

\* board 1 scored with the last click and was reset since; board 2 keeps its
\* marks and its score
C23_Witness ==
    /\ trail # <<>>
    /\ trail[Len(trail)].card = 1
    /\ trail[Len(trail)].scoreAfter > 0
    /\ allBoards[1].markedCells = <<FREE_SPACE_INDEX>>
    /\ allBoards[1].score = 0
    /\ allBoards[2].score = 1
    /\ Len(allBoards[2].markedCells) = 6
    /\ "saveGameState" \in Range(asyncQueue)

(***************************************************************************)
(* Properties of the API requests (checked under SpecSW)                   *)
(***************************************************************************)
\* the caches that hold an entry for the path
CachesHolding(cs, path) == {i \in 1..Len(cs) : path \in DOMAIN cs[i].entries}

\* C24: an /api/ request whose fetch failed is answered, when caches.match
\* finds a response for it, with that response's status and body and the
\* header X-Offline-Mode, and otherwise with a 503 whose body has the error
\* 'offline'; when the fetch succeeded the network response is the answer
\* and it carries no offline header.
C24_ApiOfflineFallback ==
    [][/\ (pc = "api_match" /\ pc' # pc) =>
              LET holding == CachesHolding(cacheStorage, req.path)
              IN  /\ netFailed /\ pc' = "done"
                  /\ IF req.method = "GET" /\ holding # {}
                     THEN \E i \in holding :
                            /\ \A j \in holding : i <= j
                            /\ result'.status = cacheStorage[i].entries[req.path].status
                            /\ result'.body = cacheStorage[i].entries[req.path].body
                            /\ result'.offlineHeader
                     ELSE /\ result'.status = 503
                          /\ result'.body = "{error: offline}"
       /\ (pc \in {"api_fetch", "api_open"} /\ Resolves /\ ~netFailed') =>
              /\ result' = netResp'
              /\ result'.body \in {"net", "net-error"}
              /\ ~result'.offlineHeader]_vars

\* GET /api/boards failed on the network and was answered from the cache
C24_Witness ==
    /\ pc = "done" /\ netFailed
    /\ req = GetRequest("/api/boards", "cors")
    /\ result.status = 200 /\ result.body = "net"
    /\ result.offlineHeader
    /\ ~CurrentEntry(cacheStorage, "/api/boards").offlineHeader

(***************************************************************************)
(* Properties of the delayed removal (checked under SpecRemove)            *)
(***************************************************************************)
\* C25: the user adds no id; a board whose removal timer has fired, also one
\* fired while the selection section was open, is not in selectedBoards after
\* the selection is confirmed: confirmSelection brings back no board that
\* selectedBoards had lost.
C25_RemovalNotUndone ==
    [][ConfirmSelection =>
          \A k \in DOMAIN selectedBoards' : Has(selectedBoards, selectedBoards'[k])]_vars

\* C26: a confirmSelection or a removeBoardById that changes selectedBoards
\* starts a saveGameState in the same operation, also when the new selection
\* is empty.
C26_SelectionChangeSaves ==
    [][((ConfirmSelection \/ RemoveBoardById) /\ selectedBoards' # selectedBoards) =>
          (Len(asyncQueue') = Len(asyncQueue) + 1
           /\ asyncQueue'[Len(asyncQueue')] = "saveGameState")]_vars

(***************************************************************************)
(* Properties of loadGameState (checked under Spec)                        *)
(***************************************************************************)
\* C27: a loadGameState that ends has either left selectedBoards and
\* allBoards both as they were, or replaced both by what the stored record
\* holds; it never replaces the selection and leaves the boards.
C27_LoadAllOrNothing ==
    [][ResolveLoadGameState =>
          \/ /\ selectedBoards' = selectedBoards
             /\ allBoards' = allBoards
          \/ /\ dbGameState # Undefined
             /\ selectedBoards' = dbGameState.selectedBoards
             /\ allBoards' = StoredBoards(dbGameState.boards)]_vars

(***************************************************************************)
(* Properties of the score (checked under SpecBoard)                       *)
(***************************************************************************)
\* C28: a click changes the score only when it marks the cell and a line
\* through that cell, which was not full before, is full after it: a click
\* that unmarks, or that completes no new line, leaves the score (stated of
\* the latest click).
C28_ScoreOnlyOnNewLine ==
    trail # <<>> =>
        LET last == trail[Len(trail)]
        IN  last.scoreAfter # last.score =>
                /\ ~Has(last.marked, last.index)
                /\ \E k \in FullLines(last.markedAfter) : last.index \in LineCells(k)

(***************************************************************************)
(* Properties of the sections (checked under Spec)                         *)
(***************************************************************************)
\* C29: once initApp has ended, after every operation exactly one of the
\* sections selection, bingo and no-boards is visible, and the bingo section
\* is visible only while selectedBoards is not empty.
C29_OneSectionVisible ==
    appPhase = "ready" =>
        /\ visible \subseteq {"selection", "bingo", "noBoards"}
        /\ Cardinality(visible) = 1
        /\ "bingo" \in visible => selectedBoards # <<>>

(***************************************************************************)
(* Properties of selectedBoards (checked under SpecPick)                   *)
(***************************************************************************)
\* C30: after any sequence of addBoard, chip removal, openSelectionMode,
\* confirmSelection, cancelSelection and removeBoardById, selectedBoards is
\* strictly ascending and holds only ids of 1..MAX_BOARDS; cancelSelection,
\* openSelectionMode and the edits of the pending selection leave
\* selectedBoards as it was.
C30_SelectedAscendingInRange ==
    [][/\ \A i, j \in DOMAIN selectedBoards' :
            i < j => selectedBoards'[i] < selectedBoards'[j]
       /\ \A i \in DOMAIN selectedBoards' : selectedBoards'[i] \in 1..MaxBoards
       /\ (\/ CancelSelection
           \/ OpenSelectionMode
           \/ AddBoard
           \/ \E id \in BoardIds : ChipRemove(id)
           \/ \E value \in InputValues : TypeInput(value))
          => selectedBoards' = selectedBoards]_vars

\* the ids were added in descending order and confirmed
C30_Witness ==
    /\ pendingSelected = <<MaxBoards, 1>>
    /\ Len(selectedBoards) = 2
    /\ selectedBoards[1] = 1 /\ selectedBoards[2] = MaxBoards
    /\ visible = {"bingo"}

(***************************************************************************)
(* Properties of the cards (checked under SpecReset)                       *)
(***************************************************************************)
\* C31: while the bingo section is visible, the card of the first selected
\* board carries the select-boards and info buttons, also after clicks on
\* cells and resets.
C31_FirstCardHasControls ==
    (appPhase = "ready" /\ "bingo" \in visible /\ selectedBoards # <<>>) =>
        \E c \in DOMAIN cards :
            cards[c].id = selectedBoards[1] /\ cards[c].isFirst

(***************************************************************************)
(* Properties of the cache writes (checked under SpecSW)                   *)
(***************************************************************************)
\* the entry of the cache called name for the path, Undefined without one
EntryOf(cs, name, path) ==
    IF Cached(cs, name, path) THEN cs[IndexOfCache(cs, name)].entries[path]
    ELSE Undefined

\* C32: an entry that a step creates or replaces in a cache is written by the
\* install-time cache.addAll, or is a network response with ok status: no
\* handler and no background refresh stores a response that is not ok, a
\* fallback response or nothing fetched.
C32_OnlyOkResponsesStored ==
    [][\A name \in CacheNames(cacheStorage') :
         \A path \in DOMAIN cacheStorage'[IndexOfCache(cacheStorage', name)].entries :
            EntryOf(cacheStorage', name, path) # EntryOf(cacheStorage, name, path) =>
                \/ swState = "installing" /\ swState' = "installed"
                \/ /\ StatusOk(EntryOf(cacheStorage', name, path))
                   /\ EntryOf(cacheStorage', name, path).body = "net"
                   /\ ~EntryOf(cacheStorage', name, path).offlineHeader]_vars

\* /img/logo.png was fetched with a status that is not ok and answered, no
\* cache holds it, while /api/boards was stored from the network
C32_Witness ==
    /\ pc = "done" /\ ~netFailed
    /\ req = GetRequest("/img/logo.png", "no-cors")
    /\ result = Response(404, "net-error")
    /\ CachesHolding(cacheStorage, "/img/logo.png") = {}
    /\ EntryOf(cacheStorage, CACHE_NAME, "/api/boards") = Response(200, "net")

====
